---------------------------- MODULE Spec2Model ----------------------------
(***************************************************************************)
(* Model of the two build helpers of mpv:                                  *)
(*   bootstrap.py                 downloads, verifies and installs waf      *)
(*   waftools/checks/custom.py    the configure-time dependency probes     *)
(* The two are independent programs; each has its own specification        *)
(* (SpecBoot, SpecProbe) over its own variables.                           *)
(***************************************************************************)
EXTENDS Integers, Sequences, FiniteSets, TLC

VARIABLES
    pc,          \* bootstrap.py: position in the script
    fs,          \* the directory entry "waf": [exists, content, mode]
    waf,         \* bootstrap.py:24, the downloaded payload (None before)
    exitStatus,  \* process exit status (-1 while running)
    out,         \* lines printed by this run
    netreqs,     \* number of urlopen() calls of this run
    fsops,       \* filesystem modifications made by this run, in order
    fs0,         \* the entry "waf" as it was when this run started
    prev,        \* exit status and output of the previous run
    runs,        \* number of runs started so far
    ctx,         \* custom.py: the build context handed to every probe
    call,        \* the last probe invocation: what it tried and returned
    ncalls       \* number of probe invocations so far

bootvars  == <<pc, fs, waf, exitStatus, out, netreqs, fsops, fs0, prev, runs>>
probevars == <<ctx, call, ncalls>>
vars      == <<pc, fs, waf, exitStatus, out, netreqs, fsops, fs0, prev, runs,
               ctx, call, ncalls>>

None == "None"

(***************************************************************************)
(* Each program leaves the other's variables at these values.              *)
(***************************************************************************)
NoFile == [exists |-> FALSE, content |-> None, mode |-> 0]
NoPrev == [exit |-> -1, out |-> <<>>]

\* A probe invocation.  DEST_OS, LIB_LIBDL and LUA_VER are ctx.env.DEST_OS,
\* ctx.env.LIB_LIBDL and ctx.options.LUA_VER as this invocation reads them,
\* oss_libdir is what __get_osslibdir returned, ctx0 is the build context at
\* the time of the call, log is every query sent to the host with its answer.
NoCall ==
    [probe |-> None, dep |-> None, pc |-> "idle", fn |-> 0, i |-> 0,
     DEST_OS |-> None, LIB_LIBDL |-> <<>>, LUA_VER |-> "", oss_libdir |-> <<>>,
     ctx0 |-> None, log |-> <<>>, result |-> None]

ProbeIdle ==
    /\ ctx = [satisfied |-> {}, defines |-> {}, uselib |-> {}, messages |-> {}]
    /\ call = NoCall
    /\ ncalls = 0

BootIdle ==
    /\ pc = "idle"
    /\ fs = NoFile
    /\ fs0 = NoFile
    /\ waf = None
    /\ exitStatus = -1
    /\ out = <<>>
    /\ netreqs = 0
    /\ fsops = <<>>
    /\ prev = NoPrev
    /\ runs = 0

(***************************************************************************)
(* Bounds of the model.                                                    *)
(***************************************************************************)
MaxRuns  == 2
MaxCalls == 2

(***************************************************************************)
(* Helpers: bit operations on mode words, Python's str.split.              *)
(***************************************************************************)
RECURSIVE BitOr(_, _)
BitOr(a, b) ==
    IF a = 0 THEN b
    ELSE IF b = 0 THEN a
    ELSE (IF (a % 2 = 1) \/ (b % 2 = 1) THEN 1 ELSE 0)
         + 2 * BitOr(a \div 2, b \div 2)

RECURSIVE BitAnd(_, _)
BitAnd(a, b) ==
    IF a = 0 \/ b = 0 THEN 0
    ELSE (IF (a % 2 = 1) /\ (b % 2 = 1) THEN 1 ELSE 0)
         + 2 * BitAnd(a \div 2, b \div 2)

\* str.split(sep) for a one-character separator: every occurrence of sep
\* ends a (possibly empty) part.
RECURSIVE Split(_, _)
Split(s, sep) ==
    IF s = <<>> THEN << <<>> >>
    ELSE LET rest == Split(Tail(s), sep)
         IN  IF Head(s) = sep
             THEN << <<>> >> \o rest
             ELSE << <<Head(s)>> \o Head(rest) >> \o Tail(rest)

(***************************************************************************)
(* bootstrap.py                                                            *)
(***************************************************************************)
WAFRELEASE == <<"w","a","f","-","1",".","8",".","1">>
WAFURL     == <<"http://ftp.waf.io/pub/release/">> \o WAFRELEASE
SHA256HASH == "ec658116ba0b96629d91fde0b32321849e866e0819f1e835c4c2c7f7ffe1a21d"

S_IXUSR    == 64       \* 0o100
S_IFREG    == 32768    \* 0o100000, the file-type bits os.stat reports
PermMask   == 4095     \* 0o7777, the bits chmod(2) keeps
CreateMode == 438      \* 0o666, the mode open(.., "wb") creates a file with

\* The byte strings that can sit in the file or come from the server.
Blobs == {"waf181", "waf181b", "waf1716", "waf181nl", "bare", "junk", "twin"}

\* hashlib.sha256(b).hexdigest(): a table over Blobs.  "twin" stands for a
\* different byte string with the pinned digest, so that equality of digests
\* is not equality of bytes.
Sha256Hex(b) ==
    CASE b = "waf181"   -> SHA256HASH
      [] b = "twin"     -> SHA256HASH
      [] b = "waf181b"  -> "0b3c1e96629d91fde0b32321849e866e0819f1e835c4c2c7f7ffe1a21dec6581"
      [] b = "waf1716"  -> "9d0c1bfb4bd7b5a0f1b0b2ba2a5bd3c3f5a1b69a0d5a5b0c1e5b3e0b7e3a9f10"
      [] b = "waf181nl" -> "77a1c0d3e8b6f5a4938271605f4e3d2c1b0a99887766554433221100ffeeddcc"
      [] b = "bare"     -> "11c2d3e4f5a6b7c8d9e0f1a2b3c4d5e6f708192a3b4c5d6e7f8091a2b3c4d5e6"
      [] OTHER          -> "e3b0c44298fc1c149afbf4c8996fb92427ae41e4649b934ca495991b7852b855"

\* What running the file as ./waf --version gives: its exit code and stdout.
VersionRun(b) ==
    CASE b = "waf181"   -> [rc |-> 0, stdout |-> <<"w","a","f"," ","1",".","8",".","1"," ","(","h",")","\n">>]
      [] b = "twin"     -> [rc |-> 0, stdout |-> <<"w","a","f"," ","1",".","8",".","1"," ","(","h",")","\n">>]
      [] b = "waf181b"  -> [rc |-> 0, stdout |-> <<"w","a","f"," ","1",".","8",".","1"," ","(","g",")","\n">>]
      [] b = "waf1716"  -> [rc |-> 0, stdout |-> <<"w","a","f"," ","1",".","7",".","1","6"," ","(","h",")","\n">>]
      [] b = "waf181nl" -> [rc |-> 0, stdout |-> <<"w","a","f"," ","1",".","8",".","1","\n">>]
      [] b = "bare"     -> [rc |-> 0, stdout |-> <<"w","a","f","\n">>]
      [] OTHER          -> [rc |-> 1, stdout |-> <<>>]

\* The wrong field of the release name: "waf" instead of "1.8.1".
Mutant_PinnedVersion == Split(WAFRELEASE, "-")[1]

\* bootstrap.py:14, the two sides of the comparison.
PinnedVersion == Split(WAFRELEASE, "-")[2]
ReportedFields(wafver) == Split(wafver, " ")

Modes  == {420, 493, 384, 484}     \* 0o644, 0o755, 0o600, 0o744
Umasks == {18, 63}                 \* 0o022, 0o077

Files == {NoFile} \cup [exists : {TRUE}, content : Blobs, mode : Modes]
Payloads == {"waf181", "twin", "waf1716", "junk"}

InitBoot ==
    /\ ProbeIdle
    /\ pc = "start"
    /\ fs \in Files
    /\ fs0 = fs
    /\ waf = None
    /\ exitStatus = -1
    /\ out = <<>>
    /\ netreqs = 0
    /\ fsops = <<>>
    /\ prev = NoPrev
    /\ runs = 1

Exit(status, lines) ==
    /\ pc' = "exited"
    /\ exitStatus' = status
    /\ out' = out \o lines

\* bootstrap.py:12
Exists ==
    /\ pc = "start"
    /\ pc' = IF fs.exists THEN "version" ELSE "download"
    /\ UNCHANGED <<fs, waf, exitStatus, out, netreqs, fsops, fs0, prev, runs>>
    /\ UNCHANGED probevars

\* bootstrap.py:13-16.  check_output raises on a non-zero exit, and [1] raises
\* when the output has no second field: an uncaught exception ends the
\* process with a traceback and status 1.
VersionCheck ==
    /\ pc = "version"
    /\ LET r == VersionRun(fs.content)
           fields == ReportedFields(r.stdout)
       IN  IF r.rc # 0
           THEN Exit(1, << <<"Traceback", "CalledProcessError">> >>)
           ELSE IF Len(fields) < 2
           THEN Exit(1, << <<"Traceback", "IndexError">> >>)
           ELSE IF PinnedVersion = fields[2]
           THEN Exit(0, << <<"Found 'waf', skipping download.">> >>)
           ELSE /\ pc' = "download"
                /\ UNCHANGED <<exitStatus, out>>
    /\ UNCHANGED <<fs, waf, netreqs, fsops, fs0, prev, runs>>
    /\ UNCHANGED probevars

\* bootstrap.py:23-24.  The server answers with some payload, or the request
\* fails and urlopen raises.
Download ==
    /\ pc = "download"
    /\ netreqs' = netreqs + 1
    /\ \E payload \in Payloads \cup {None} :
          IF payload = None
          THEN /\ waf' = waf
               /\ pc' = "exited"
               /\ exitStatus' = 1
               /\ out' = out \o << <<"Downloading %s...", WAFURL>>,
                                   <<"Traceback", "URLError">> >>
          ELSE /\ waf' = payload
               /\ pc' = "verify"
               /\ exitStatus' = exitStatus
               /\ out' = Append(out, <<"Downloading %s...", WAFURL>>)
    /\ UNCHANGED <<fs, fsops, fs0, prev, runs>>
    /\ UNCHANGED probevars

\* The comparison left out: every payload is accepted.
Mutant_HashMatches(payload) == TRUE

\* bootstrap.py:26
HashMatches(payload) == SHA256HASH = Sha256Hex(payload)

\* bootstrap.py:26, 32-38
Verify ==
    /\ pc = "verify"
    /\ IF HashMatches(waf)
       THEN /\ pc' = "write"
            /\ UNCHANGED <<exitStatus, out>>
       ELSE Exit(1, << <<"The checksum of the downloaded file does not match!">>,
                      <<" - got:      ", Sha256Hex(waf)>>,
                      <<" - expected: ", SHA256HASH>>,
                      <<"Please download and verify the file manually.">> >>)
    /\ UNCHANGED <<fs, waf, netreqs, fsops, fs0, prev, runs>>
    /\ UNCHANGED probevars

\* open("waf", "wb") and write: an existing file is truncated and keeps its
\* mode, a new one gets 0o666 less the umask.  The calls are taken to
\* succeed: a failing open, write or chmod (a file the user may not write,
\* a full disk) is not modelled.
WrittenFile(f, payload, umask) ==
    [exists  |-> TRUE,
     content |-> payload,
     mode    |-> IF f.exists THEN f.mode
                 ELSE BitAnd(CreateMode, PermMask - umask)]

\* bootstrap.py:27-28
Write ==
    /\ pc = "write"
    /\ \E umask \in Umasks : fs' = WrittenFile(fs, waf, umask)
    /\ fsops' = Append(fsops, "write")
    /\ pc' = "chmod"
    /\ UNCHANGED <<waf, exitStatus, out, netreqs, fs0, prev, runs>>
    /\ UNCHANGED probevars

\* os.stat("waf").st_mode
StMode(f) == BitOr(S_IFREG, f.mode)

\* The mode set to 0o755 instead of or-ing the owner-execute bit in.
Mutant_ChmodFile(f) == [f EXCEPT !.mode = 493]

\* os.chmod("waf", os.stat("waf").st_mode | stat.S_IXUSR)
ChmodFile(f) == [f EXCEPT !.mode = BitAnd(BitOr(StMode(f), S_IXUSR), PermMask)]

\* bootstrap.py:30-31, then the script ends
Chmod ==
    /\ pc = "chmod"
    /\ fs' = ChmodFile(fs)
    /\ fsops' = Append(fsops, "chmod")
    /\ Exit(0, << <<"Checksum verified.">> >>)
    /\ UNCHANGED <<waf, netreqs, fs0, prev, runs>>
    /\ UNCHANGED probevars

\* The script is run again in the directory the last run left.
Rerun ==
    /\ pc = "exited"
    /\ runs < MaxRuns
    /\ runs' = runs + 1
    /\ prev' = [exit |-> exitStatus, out |-> out]
    /\ fs0' = fs
    /\ pc' = "start"
    /\ waf' = None
    /\ exitStatus' = -1
    /\ out' = <<>>
    /\ netreqs' = 0
    /\ fsops' = <<>>
    /\ UNCHANGED fs
    /\ UNCHANGED probevars

NextBoot ==
    \/ Exists
    \/ VersionCheck
    \/ Download
    \/ Verify
    \/ Write
    \/ Chmod
    \/ Rerun


(***************************************************************************)
(* waftools/checks/custom.py                                               *)
(*                                                                         *)
(* A probe runs step by step: every query it sends to an external tool     *)
(* (pkg-config, the compiler) is one step, answered by the host.  While a  *)
(* probe runs no other probe starts.  A host answers a repeated question   *)
(* the way it answered it before.                                          *)
(***************************************************************************)

\* " ".join(words): strings of library names are sequences of tokens.
RECURSIVE Join(_)
Join(words) ==
    IF Len(words) = 0 THEN <<>>
    ELSE IF Len(words) = 1 THEN <<words[1]>>
    ELSE <<words[1], " ">> \o Join(Tail(words))

\* The primitives of waftools/checks/generic.py, the inflector and the
\* build context's own methods.
define_key(dep) == <<"HAVE", dep>>

dependency_satisfied(c, d) == d \in c.satisfied
mark_satisfied(c, d) == [c EXCEPT !.satisfied = @ \cup {d}]
undefine(c, key) == [c EXCEPT !.defines = @ \ {key}]
add_optional_message(c, dep, msg) == [c EXCEPT !.messages = @ \cup {<<dep, msg>>}]

\* check_cc(...)(ctx, dep): a successful compile records the dependency's
\* define; a failed one is a plain "not found".
check_cc(c, dep, ok) ==
    IF ok THEN [c EXCEPT !.defines = @ \cup {define_key(dep)}] ELSE c

\* check_pkg_config(query, uselib_store)(ctx, dep): a resolved package has
\* its flags recorded in the named uselib store.
check_pkg_config(c, query, store, ok) ==
    IF ok THEN [c EXCEPT !.uselib = @ \cup {<<store, query>>}] ELSE c

\* check_libs(libs, fn): after candidate i answered ok, what the scan does.
check_libs(libs, i, ok) ==
    IF ok THEN "True" ELSE IF i < Len(libs) THEN "next" ELSE "False"

\* compose_checks(a, b): b runs only after a succeeded.
compose_checks(okA) == IF okA THEN "second" ELSE "False"

\* A keyword argument that holds a string: given or left out.
NoArg  == [given |-> FALSE, str |-> <<>>]
Arg(s) == [given |-> TRUE, str |-> s]

\* Utils.to_list: the words of a string; nothing for '' and for an argument
\* that was not given.
ToList(a) ==
    IF ~a.given THEN <<>>
    ELSE SelectSeq(Split(a.str, " "), LAMBDA w : w # <<>>)

\* What the compiler is asked: the fragment, the flags and the libraries as
\* lists, the uselib names, and the rest.
Command(args) ==
    [fragment |-> args.fragment, flags |-> ToList(args.cflags),
     lib |-> ToList(args.lib), use |-> args.use, more |-> args.more]

Asked(entry) == IF entry.kind = "cc" THEN Command(entry.args) ELSE entry.args.query

\* The answers the host can give to a question, given the log so far.
Answers(kind, question, log) ==
    LET prior == {j \in 1..Len(log) : log[j].kind = kind /\ Asked(log[j]) = question}
    IN  IF prior = {} THEN BOOLEAN ELSE {log[j].ok : j \in prior}

Fragment(file) == [file |-> file, header |-> "", code |-> ""]
CcArgs(fragment, cflags, lib, use, more) ==
    [fragment |-> fragment, cflags |-> cflags, lib |-> lib, use |-> use, more |-> more]

\* The table of defines forgotten.
Mutant_platform_cflags(dest_os) == <<>>

\* custom.py:12-18
platform_cflags(dest_os) ==
    CASE dest_os = "linux"   -> <<"-D_REENTRANT">>
      [] dest_os = "freebsd" -> <<"-D_THREAD_SAFE">>
      [] dest_os = "netbsd"  -> <<"-D_THREAD_SAFE">>
      [] dest_os = "openbsd" -> <<"-D_THREAD_SAFE">>
      [] dest_os = "win32"   -> <<"-DPTW32_STATIC_LIB">>
      [] OTHER               -> <<>>

\* custom.py:19
pthread_libs == << <<"pthreadGC2">>, <<"pthread">> >>

\* custom.py:20-22: [checkfn, checkfn_nocflags]
pthread_fns(dest_os) ==
    << CcArgs(Fragment("pthreads.c"), Arg(platform_cflags(dest_os)), NoArg, <<>>, <<>>),
       CcArgs(Fragment("pthreads.c"), NoArg, NoArg, <<>>, <<>>) >>

\* custom.py:29-30
iconv_libs(lib_libdl) == << <<"iconv">>, Join(lib_libdl \o <<"iconv">>) >>

\* The two companion branches in the other order.
Mutant_quvi(c) ==
    IF dependency_satisfied(c, "libquvi9")
    THEN [storage |-> <<"libquvi9">>, header |-> "#include <quvi.h>",
          code |-> "lua_libquvi9.c"]
    ELSE IF dependency_satisfied(c, "libquvi4")
    THEN [storage |-> <<"libquvi4">>, header |-> "#include <quvi/quvi.h>",
          code |-> "lua_libquvi4.c"]
    ELSE [storage |-> <<>>, header |-> "", code |-> ""]

\* custom.py:35-46: the companion library, its header and its code
quvi(c) ==
    IF dependency_satisfied(c, "libquvi4")
    THEN [storage |-> <<"libquvi4">>, header |-> "#include <quvi/quvi.h>",
          code |-> "lua_libquvi4.c"]
    ELSE IF dependency_satisfied(c, "libquvi9")
    THEN [storage |-> <<"libquvi9">>, header |-> "#include <quvi.h>",
          code |-> "lua_libquvi9.c"]
    ELSE [storage |-> <<>>, header |-> "", code |-> ""]

\* custom.py:48-50
lua_fragment(c) ==
    [file |-> "lua.c", header |-> quvi(c).header, code |-> quvi(c).code]

\* luajit moved behind the 5.2 candidates.
Mutant_lua_versions ==
    << <<"51",     "lua >= 5.1.0 lua < 5.2.0">>,
       <<"51deb",  "lua5.1 >= 5.1.0">>,
       <<"52",     "lua >= 5.2.0">>,
       <<"52deb",  "lua5.2 >= 5.2.0">>,
       <<"luajit", "luajit >= 2.0.0">> >>

\* custom.py:52-59
lua_versions ==
    << <<"51",     "lua >= 5.1.0 lua < 5.2.0">>,
       <<"51deb",  "lua5.1 >= 5.1.0">>,
       <<"luajit", "luajit >= 2.0.0">>,
       <<"52",     "lua >= 5.2.0">>,
       <<"52deb",  "lua5.2 >= 5.2.0">> >>

\* The LUA_VER filter left out.
Mutant_lua_candidates(lua_ver) == lua_versions

\* custom.py:61-63
lua_candidates(lua_ver) ==
    IF lua_ver # ""
    THEN SelectSeq(lua_versions, LAMBDA lv : lv[1] = lua_ver)
    ELSE lua_versions

\* custom.py:68-70
lua_cc_args(c, lua_version) ==
    CcArgs(lua_fragment(c), NoArg, NoArg, <<lua_version>> \o quvi(c).storage,
           <<"execute">>)

DestOSes == {"linux", "freebsd", "win32", "darwin"}
LibDLs   == {<<>>, <<"dl">>}
LuaVers  == {"", "51", "52deb", "53"}
\* What sh -c '. /etc/oss.conf && echo $OSSLIBDIR' can print.
OssOutputs == {<<>>, <<"\n">>, <<"/usr/lib/oss", "\n">>}

Enter(probe, dep) ==
    [NoCall EXCEPT !.probe = probe, !.dep = dep, !.pc = "run", !.fn = 1,
                   !.i = 1, !.ctx0 = ctx]

CanEnter == call.pc \in {"idle", "done"} /\ ncalls < MaxCalls

Return(c, value) == [c EXCEPT !.pc = "done", !.result = value]

Logged(c, kind, args, ok) ==
    [c EXCEPT !.log = Append(@, [kind |-> kind, args |-> args, ok |-> ok])]

InitProbe ==
    /\ BootIdle
    /\ ctx \in [satisfied : SUBSET {"libquvi4", "libquvi9"},
                defines   : SUBSET {define_key("oss-audio-4front"), define_key("alsa")},
                uselib    : {{}},
                messages  : {{}}]
    /\ call = NoCall
    /\ ncalls = 0

\* custom.py:11-21
PthreadsEnter ==
    /\ CanEnter
    /\ \E dest_os \in DestOSes :
          call' = [Enter("check_pthreads", "pthreads") EXCEPT !.DEST_OS = dest_os]
    /\ ncalls' = ncalls + 1
    /\ UNCHANGED ctx
    /\ UNCHANGED bootvars

\* custom.py:22-25: one attempt of check_libs(libs, fn)
PthreadsTry ==
    /\ call.probe = "check_pthreads" /\ call.pc = "run"
    /\ LET fns  == pthread_fns(call.DEST_OS)
           args == [fns[call.fn] EXCEPT !.lib = Arg(pthread_libs[call.i])]
       IN  \E ok \in Answers("cc", Command(args), call.log) :
             LET c    == Logged(call, "cc", args, ok)
                 scan == check_libs(pthread_libs, call.i, ok)
             IN  /\ ctx' = check_cc(ctx, call.dep, ok)
                 /\ call' = IF scan = "True" THEN Return(c, "True")
                            ELSE IF scan = "next" THEN [c EXCEPT !.i = @ + 1]
                            ELSE IF call.fn < Len(fns)
                            THEN [c EXCEPT !.fn = @ + 1, !.i = 1]
                            ELSE Return(c, "False")
    /\ UNCHANGED ncalls
    /\ UNCHANGED bootvars

\* custom.py:27-31
IconvEnter ==
    /\ CanEnter
    /\ \E lib_libdl \in LibDLs :
          call' = [Enter("check_iconv", "iconv") EXCEPT !.LIB_LIBDL = lib_libdl]
    /\ ncalls' = ncalls + 1
    /\ UNCHANGED ctx
    /\ UNCHANGED bootvars

\* custom.py:32
IconvTry ==
    /\ call.probe = "check_iconv" /\ call.pc = "run"
    /\ LET libs == iconv_libs(call.LIB_LIBDL)
           args == CcArgs(Fragment("iconv.c"), NoArg, Arg(libs[call.i]), <<>>, <<>>)
       IN  \E ok \in Answers("cc", Command(args), call.log) :
             LET c    == Logged(call, "cc", args, ok)
                 scan == check_libs(libs, call.i, ok)
             IN  /\ ctx' = check_cc(ctx, call.dep, ok)
                 /\ call' = IF scan = "next" THEN [c EXCEPT !.i = @ + 1]
                            ELSE Return(c, scan)
    /\ UNCHANGED ncalls
    /\ UNCHANGED bootvars

\* custom.py:34-65: an empty candidate list falls through to return False
LuaEnter ==
    /\ CanEnter
    /\ \E lua_ver \in LuaVers :
          LET c == [Enter("check_lua", "lua") EXCEPT !.LUA_VER = lua_ver]
          IN  call' = IF Len(lua_candidates(lua_ver)) = 0
                      THEN Return(c, "False") ELSE c
    /\ ncalls' = ncalls + 1
    /\ UNCHANGED ctx
    /\ UNCHANGED bootvars

\* custom.py:65-67: the first half of compose_checks
LuaPkgConfig ==
    /\ call.probe = "check_lua" /\ call.pc = "run"
    /\ LET cands == lua_candidates(call.LUA_VER)
           lv    == cands[call.i]
           args  == [query |-> lv[2], uselib_store |-> lv[1]]
       IN  \E ok \in Answers("pkg-config", args.query, call.log) :
             LET c == Logged(call, "pkg-config", args, ok)
             IN  /\ ctx' = check_pkg_config(ctx, args.query, args.uselib_store, ok)
                 /\ call' = IF compose_checks(ok) = "second"
                            THEN [c EXCEPT !.pc = "cc"]
                            ELSE IF call.i < Len(cands)
                            THEN [c EXCEPT !.i = @ + 1]
                            ELSE Return(c, "False")
    /\ UNCHANGED ncalls
    /\ UNCHANGED bootvars

\* custom.py:68-77: the second half, and what follows a success
LuaCompile ==
    /\ call.probe = "check_lua" /\ call.pc = "cc"
    /\ LET cands == lua_candidates(call.LUA_VER)
           lua_version == cands[call.i][1]
           args  == lua_cc_args(call.ctx0, lua_version)
       IN  \E ok \in Answers("cc", Command(args), call.log) :
             LET c == Logged(call, "cc", args, ok)
             IN  IF ok
                 THEN /\ ctx' = add_optional_message(
                                   mark_satisfied(check_cc(ctx, call.dep, ok),
                                                  lua_version),
                                   call.dep, <<"version found: ", lua_version>>)
                      /\ call' = Return(c, "True")
                 ELSE /\ ctx' = check_cc(ctx, call.dep, ok)
                      /\ call' = IF call.i < Len(cands)
                                 THEN [c EXCEPT !.i = @ + 1, !.pc = "run"]
                                 ELSE Return(c, "False")
    /\ UNCHANGED ncalls
    /\ UNCHANGED bootvars

\* str.rstrip(): trailing whitespace is dropped.
RECURSIVE RStrip(_)
RStrip(str) ==
    IF str = <<>> THEN <<>>
    ELSE IF str[Len(str)] \in {"\n", " ", "\t"}
    THEN RStrip(SubSeq(str, 1, Len(str) - 1))
    ELSE str

\* custom.py:79-84
get_osslibdir(stdout) == RStrip(stdout)

\* custom.py:95-102
oss_cc_args(oss_libdir) ==
    LET soundcard_h == oss_libdir \o <<"/", "include/sys/soundcard.h">>
        include_dir == oss_libdir \o <<"/", "include">>
    IN  CcArgs(Fragment("oss_audio.c"), Arg(<<"-I">> \o include_dir), NoArg, <<>>,
               [header_name |-> soundcard_h,
                defines |-> <<"PATH_DEV_DSP=\"/dev/dsp\"",
                              "PATH_DEV_MIXER=\"/dev/mixer\"">>])

\* The undefine left out.
Mutant_oss_no_libdir(c, dep) == c

\* custom.py:90-93
oss_no_libdir(c, dep) == undefine(c, define_key(dep))

\* custom.py:86-96
OssEnter ==
    /\ CanEnter
    /\ \E stdout \in OssOutputs :
          LET oss_libdir == get_osslibdir(stdout)
              c == [Enter("check_oss_4front", "oss-audio-4front")
                      EXCEPT !.oss_libdir = oss_libdir]
          IN  IF oss_libdir = <<>>
              THEN /\ ctx' = oss_no_libdir(ctx, c.dep)
                   /\ call' = Return(c, "False")
              ELSE /\ ctx' = ctx
                   /\ call' = c
    /\ ncalls' = ncalls + 1
    /\ UNCHANGED bootvars

\* custom.py:98-104
OssTry ==
    /\ call.probe = "check_oss_4front" /\ call.pc = "run"
    /\ LET args == oss_cc_args(call.oss_libdir)
       IN  \E ok \in Answers("cc", Command(args), call.log) :
             /\ ctx' = check_cc(ctx, call.dep, ok)
             /\ call' = Return(Logged(call, "cc", args, ok),
                               IF ok THEN "True" ELSE "False")
    /\ UNCHANGED ncalls
    /\ UNCHANGED bootvars

\* custom.py:107-112
cocoa_cc_args ==
    CcArgs(Fragment("cocoa.m"), NoArg, NoArg, <<>>,
           [compile_filename |-> "test.m",
            framework_name |-> <<"Cocoa", "IOKit", "OpenGL">>,
            includes |-> "srcnode.abspath()",
            linkflags |-> "-fobjc-arc"])

\* custom.py:106
CocoaEnter ==
    /\ CanEnter
    /\ call' = Enter("check_cocoa", "cocoa")
    /\ ncalls' = ncalls + 1
    /\ UNCHANGED ctx
    /\ UNCHANGED bootvars

\* custom.py:107-114
CocoaTry ==
    /\ call.probe = "check_cocoa" /\ call.pc = "run"
    /\ \E ok \in Answers("cc", Command(cocoa_cc_args), call.log) :
          /\ ctx' = check_cc(ctx, call.dep, ok)
          /\ call' = Return(Logged(call, "cc", cocoa_cc_args, ok),
                            IF ok THEN "True" ELSE "False")
    /\ UNCHANGED ncalls
    /\ UNCHANGED bootvars

NextProbe ==
    \/ PthreadsEnter
    \/ PthreadsTry
    \/ IconvEnter
    \/ IconvTry
    \/ LuaEnter
    \/ LuaPkgConfig
    \/ LuaCompile
    \/ OssEnter
    \/ OssTry
    \/ CocoaEnter
    \/ CocoaTry

(***************************************************************************)
(* The two specifications.                                                 *)
(***************************************************************************)
SpecBoot  == InitBoot /\ [][NextBoot]_vars
SpecProbe == InitProbe /\ [][NextProbe]_vars

(***************************************************************************)
(* Properties of bootstrap.py, checked under SpecBoot.                     *)
(***************************************************************************)

\* The byte strings whose SHA-256 is the pinned one, those that print
\* "waf 1.8.1 (..)" when run with --version, and those that print another
\* version.
PinnedDigest   == {"waf181", "twin"}
Reports181     == {"waf181", "twin", "waf181b"}
ReportsAnother == {"waf1716", "waf181nl"}

SkipLine == <<"Found 'waf', skipping download.">>

HasOwnerExec(mode) == (mode \div 64) % 2 = 1
PlusOwnerExec(mode) == IF HasOwnerExec(mode) THEN mode ELSE mode + 64

\* C1: once a run has downloaded a payload whose SHA-256 differs from
\* SHA256HASH, it never writes or chmods: the entry "waf" stays exactly as
\* the run found it (absent, or with its content and mode), the run goes
\* from the comparison straight to its end, and it ends with status 1.
C1_MismatchNoFilesystemAction ==
    (waf # None /\ waf \notin PinnedDigest) =>
        /\ fsops = <<>>
        /\ fs = fs0
        /\ pc \in {"verify", "exited"}
        /\ pc = "exited" => exitStatus = 1

C1_Witness ==
    /\ pc = "exited" /\ exitStatus = 1
    /\ waf # None /\ waf \notin PinnedDigest
    /\ fs0.exists /\ fs = fs0

\* C2: a run that downloaded a payload with the pinned SHA-256 ends with
\* status 0 and a file "waf" holding exactly the payload; it modifies the
\* file by one write followed by one chmod and nothing else; the chmod
\* step adds the owner-execute bit to the mode the file had after the
\* write and changes no other bit and no byte; and nothing is written
\* before a payload with the pinned digest has been downloaded.
C2_State ==
    /\ (pc = "exited" /\ waf \in PinnedDigest) =>
          /\ exitStatus = 0
          /\ fs.exists /\ fs.content = waf
          /\ fsops = <<"write", "chmod">>
          /\ HasOwnerExec(fs.mode)
    /\ fsops # <<>> => waf \in PinnedDigest
    /\ pc = "chmod" => (fs.exists /\ fs.content = waf /\ fsops = <<"write">>)

C2_Step ==
    pc = "chmod" =>
        /\ fs'.mode = PlusOwnerExec(fs.mode)
        /\ fs'.content = fs.content
        /\ fs'.exists

Running(probe)  == call.probe = probe /\ call.pc # "idle"
Returned(probe) == call.probe = probe /\ call.pc = "done"
Entries == 1..Len(call.log)
IsCc(j)  == call.log[j].kind = "cc"
IsPkg(j) == call.log[j].kind = "pkg-config"
Flags(j) == Command(call.log[j].args).flags

\* C4: check_pthreads asks the compiler for (define, pthreadGC2),
\* (define, pthread), (no define, pthreadGC2), (no define, pthread) in that
\* order, where on linux the define is -D_REENTRANT; it stops at the first
\* combination that compiles and links and returns True, and it returns
\* False only after all four have failed.
C4_PthreadsFourCombinations ==
    Running("check_pthreads") =>
        /\ Len(call.log) <= 4
        /\ \A j \in Entries :
              /\ IsCc(j)
              /\ Command(call.log[j].args).lib =
                    IF j % 2 = 1 THEN << <<"pthreadGC2">> >> ELSE << <<"pthread">> >>
              /\ j <= 2 => Flags(j) = Flags(1)
              /\ (j <= 2 /\ call.DEST_OS = "linux") => Flags(j) = << <<"-D_REENTRANT">> >>
              /\ j > 2 => Flags(j) = <<>>
              /\ j < Len(call.log) => ~call.log[j].ok
        /\ call.pc = "done" =>
              /\ call.result \in {"True", "False"}
              /\ Len(call.log) >= 1
              /\ call.result = "True" <=> call.log[Len(call.log)].ok
              /\ call.result = "False" => Len(call.log) = 4
        /\ call.pc # "done" => \A j \in Entries : ~call.log[j].ok

C4_Witness ==
    /\ Returned("check_pthreads") /\ call.DEST_OS = "linux"
    /\ call.result = "True" /\ Len(call.log) = 3
    /\ Flags(2) = << <<"-D_REENTRANT">> >> /\ Flags(3) = <<>>

LuaTags == <<"51", "51deb", "luajit", "52", "52deb">>
LuaTagSet == {LuaTags[k] : k \in 1..Len(LuaTags)}
PkgEntries == {j \in Entries : IsPkg(j)}
Store(j) == call.log[j].args.uselib_store

\* C5: with LUA_VER set, check_lua sends at most one pkg-config query, the
\* one paired with that tag ('lua5.2 >= 5.2.0' for 52deb), marks no other
\* tag satisfied, and for a tag that is not in the list sends no query at
\* all, changes nothing and returns False.
C5_LuaVerRestricts ==
    (Running("check_lua") /\ call.LUA_VER # "") =>
        /\ Cardinality(PkgEntries) <= 1
        /\ \A j \in PkgEntries :
              /\ Store(j) = call.LUA_VER
              /\ call.LUA_VER = "52deb" => call.log[j].args.query = "lua5.2 >= 5.2.0"
              /\ call.LUA_VER = "51" => call.log[j].args.query = "lua >= 5.1.0 lua < 5.2.0"
        /\ \A j \in Entries : IsCc(j) => call.log[j].args.use[1] = call.LUA_VER
        /\ (ctx.satisfied \ call.ctx0.satisfied) \subseteq {call.LUA_VER}
        /\ call.LUA_VER \notin LuaTagSet =>
              /\ call.pc = "done" /\ call.result = "False"
              /\ call.log = <<>> /\ ctx = call.ctx0

C5_Witness ==
    /\ Returned("check_lua") /\ call.LUA_VER = "52deb" /\ call.result = "True"
    /\ Len(call.log) = 2 /\ call.log[1].args.query = "lua5.2 >= 5.2.0"
    /\ "52deb" \in ctx.satisfied /\ "52deb" \notin call.ctx0.satisfied

\* C6: with no LUA_VER, check_lua goes through 51, 51deb, luajit, 52, 52deb
\* in that order; the compile step of a candidate runs only right after its
\* own pkg-config query resolved, and always then; nothing is asked after a
\* compile step succeeded; the probe returns True exactly when the last
\* step was a successful compile, and then the tag of that candidate is the
\* one tag it marks; it returns False only after all five candidates
\* failed, and marks nothing.
C6_LuaScanInOrder ==
    (Running("check_lua") /\ call.LUA_VER = "") =>
        /\ \A j \in PkgEntries :
              LET n == Cardinality({k \in PkgEntries : k <= j})
              IN  n <= 5 /\ Store(j) = LuaTags[n]
        /\ \A j \in Entries :
              /\ IsCc(j) =>
                    /\ j > 1 /\ IsPkg(j - 1) /\ call.log[j - 1].ok
                    /\ call.log[j].args.use[1] = Store(j - 1)
              /\ (IsCc(j) /\ call.log[j].ok) => j = Len(call.log)
              /\ (IsPkg(j) /\ j < Len(call.log)) =>
                    (IF call.log[j].ok THEN IsCc(j + 1) ELSE IsPkg(j + 1))
        /\ call.pc = "done" =>
              LET last == call.log[Len(call.log)]
              IN  /\ call.result \in {"True", "False"}
                  /\ call.result = "True" <=> (last.kind = "cc" /\ last.ok)
                  /\ call.result = "True" =>
                        ctx.satisfied = call.ctx0.satisfied \cup {last.args.use[1]}
                  /\ call.result = "False" =>
                        /\ Cardinality(PkgEntries) = 5
                        /\ ctx.satisfied = call.ctx0.satisfied
        /\ call.pc # "done" => ctx.satisfied = call.ctx0.satisfied

C6_Witness ==
    /\ Returned("check_lua") /\ call.LUA_VER = "" /\ call.result = "True"
    /\ Len(call.log) = 5
    /\ call.log[1].ok /\ ~call.log[2].ok /\ ~call.log[3].ok
    /\ ctx.satisfied \ call.ctx0.satisfied = {"luajit"}

OssKey == <<"HAVE", "oss-audio-4front">>
OssEmptyReturned ==
    Returned("check_oss_4front") /\ call.oss_libdir = <<>>

\* C7: when the OSS library directory comes back empty, check_oss_4front
\* returns False without asking the compiler, and the build context is the
\* one it was called with less the dependency's define; a second such call
\* right after the first changes nothing.
C7_State ==
    OssEmptyReturned =>
        /\ call.result = "False"
        /\ call.log = <<>>
        /\ OssKey \notin ctx.defines
        /\ ctx = [call.ctx0 EXCEPT !.defines = @ \ {OssKey}]

C7_Step ==
    (OssEmptyReturned /\ OssEmptyReturned' /\ ncalls' = ncalls + 1) => ctx' = ctx

C7_OssEmptyLibdirUndefines == [](C7_State) /\ [][C7_Step]_vars

C7_Witness ==
    /\ OssEmptyReturned /\ ncalls = 2
    /\ OssKey \in call.ctx0.defines
    /\ ctx.defines = call.ctx0.defines \ {OssKey}

\* C8: within one invocation of a probe the host is never asked the same
\* question twice: no two entries of the log are the same kind of query
\* for the same thing.
C8_NeverAsksTwice ==
    \A j, k \in Entries :
        (j < k /\ call.log[j].kind = call.log[k].kind)
            => Asked(call.log[j]) # Asked(call.log[k])

\* C9: a probe that returned False leaves in the build context no define,
\* no uselib store entry, no satisfied mark and no message that was not
\* there when it was called.
C9_FalseLeavesNothingBehind ==
    (call.pc = "done" /\ call.result = "False") =>
        /\ ctx.defines \subseteq call.ctx0.defines
        /\ ctx.uselib \subseteq call.ctx0.uselib
        /\ ctx.satisfied \subseteq call.ctx0.satisfied
        /\ ctx.messages \subseteq call.ctx0.messages

\* C10: every compile step of check_lua links the candidate's tag plus at
\* most one companion: libquvi4 when it is satisfied, libquvi9 only when
\* libquvi4 is not, none when neither is; the header and code added to the
\* fragment are those of that companion, and empty when there is none.
C10_OneCompanion ==
    Running("check_lua") =>
        \A j \in Entries : IsCc(j) =>
            LET use  == call.log[j].args.use
                frag == call.log[j].args.fragment
                sat  == call.ctx0.satisfied
            IN  /\ frag.file = "lua.c"
                /\ use[1] \in LuaTagSet
                /\ "libquvi4" \in sat =>
                      /\ use = <<use[1], "libquvi4">>
                      /\ frag.header = "#include <quvi/quvi.h>"
                      /\ frag.code = "lua_libquvi4.c"
                /\ ("libquvi4" \notin sat /\ "libquvi9" \in sat) =>
                      /\ use = <<use[1], "libquvi9">>
                      /\ frag.header = "#include <quvi.h>"
                      /\ frag.code = "lua_libquvi9.c"
                /\ ("libquvi4" \notin sat /\ "libquvi9" \notin sat) =>
                      /\ use = <<use[1]>>
                      /\ frag.header = "" /\ frag.code = ""

C10_Witness ==
    /\ Running("check_lua")
    /\ {"libquvi4", "libquvi9"} \subseteq call.ctx0.satisfied
    /\ \E j \in Entries : IsCc(j) /\ call.log[j].args.use = <<"52", "libquvi4">>

=============================================================================
